---- MODULE Spec2Model ----
(***************************************************************************)
(* Model of the dashboard view src/frontend/src/pages/data/index.vue:      *)
(* the reactive state of the component, the requests it has in flight,     *)
(* its timers, and the two chart objects it drives.                        *)
(*                                                                         *)
(* One action is one run-to-completion step of the event loop: a user      *)
(* event handler, a timer callback, or the continuation of an await once   *)
(* the response has arrived, together with the microtasks (DOM flush,      *)
(* nextTick callbacks) that run before the next event.                     *)
(*                                                                         *)
(* Numbers: change_percent is kept in hundredths of a percent, the         *)
(* treemap's change in tenths, avg_change in units of 1e-4.                *)
(***************************************************************************)
EXTENDS Integers, Sequences, FiniteSets, TLC

(***************************************************************************)
(* Bounds of the model.                                                    *)
(***************************************************************************)
MaxOps == 2          \* user events (clicks, selections, resizes) per run
MaxInFlight == 2     \* requests of one kind in flight at the same time

(***************************************************************************)
(* Generic helpers.                                                        *)
(***************************************************************************)
Min(a, b) == IF a < b THEN a ELSE b

Abs(x) == IF x < 0 THEN -x ELSE x

\* Object.values(o)
ObjectValues(f) == {f[k] : k \in DOMAIN f}

\* The request that was handled put on the network again.
ReissuedAt(s, i) == SubSeq(s, 1, i - 1) \o SubSeq(s, i + 1, Len(s)) \o <<s[i]>>

\* The collection of requests without the one that was handled.
RemoveAt(s, i) == SubSeq(s, 1, i - 1) \o SubSeq(s, i + 1, Len(s))

\* Array.prototype.slice(-n): the last n elements; slice(-0) is slice(0).
SliceLast(s, n) ==
  IF n = 0 \/ n >= Len(s) THEN s ELSE SubSeq(s, Len(s) - n + 1, Len(s))

\* Array.prototype.slice(0, n)
SliceFirst(s, n) == SubSeq(s, 1, Min(n, Len(s)))

\* Array.from(set).sort() on date strings: ascending, duplicate-free.
RECURSIVE SortAsc(_)
SortAsc(S) ==
  IF S = {} THEN <<>>
  ELSE LET m == CHOOSE x \in S : \A y \in S : x <= y
       IN  <<m>> \o SortAsc(S \ {m})

(***************************************************************************)
(* Data of the API, as the view reads it.                                  *)
(*   IndustrySummary  [industry, avg_change]                               *)
(*   trend entry      [date, change_percent]; date 0 is a missing date,    *)
(*                    change_percent is <<v>> or <<>> (undefined)          *)
(*   trend body       [industry, stock_trends]; stock_trends is <<f>> with *)
(*                    f a function from stock codes (numbers here) to      *)
(*                    entry sequences, or <<>> when the field is missing   *)
(***************************************************************************)
Summary(n, c) == [industry |-> n, avg_change |-> c]

Entry(d, cp) == [date |-> d, change_percent |-> cp]

(***************************************************************************)
(* updateIndustryChart: selection of the industries.                       *)
(***************************************************************************)
\* The comparator with the filter ignored: ascending for top3 as well.
CompareAvgChangeAscending(filter, a, b) == a.avg_change - b.avg_change

\* The comparator of the two sort calls.
CompareAvgChange(filter, a, b) ==
  IF filter = "top3" THEN b.avg_change - a.avg_change
                     ELSE a.avg_change - b.avg_change

\* [...industryAnalysis].sort(comparator); Array.prototype.sort is stable.
RECURSIVE SortIndustries(_, _)
SortIndustries(list, filter) ==
  IF list = <<>> THEN <<>>
  ELSE LET n    == Len(list)
           x    == list[n]
           head == SortIndustries(SubSeq(list, 1, n - 1), filter)
           Before(e) == CompareAvgChange(filter, e, x) <= 0
           After(e)  == CompareAvgChange(filter, e, x) > 0
       IN  SelectSeq(head, Before) \o <<x>> \o SelectSeq(head, After)

\* industriesToShow
IndustriesToShow(list, filter) ==
  IF filter \in {"top3", "bottom3"}
  THEN SliceFirst(SortIndustries(list, filter), 3)
  ELSE list

\* allIndustryTrends.value[name] && .stock_trends
HasTrend(trends, name) == name \in DOMAIN trends

(***************************************************************************)
(* updateIndustryChart: the dates of the x axis.                           *)
(***************************************************************************)
\* The dates of every industry that has trend data, shown or not.
AllDataDatesOfEveryTrend(toShow, trends) ==
  UNION {UNION {{st[j].date : j \in 1..Len(st)} :
                  st \in ObjectValues(trends[n].stock_trends)} :
           n \in DOMAIN trends}
    \ {0}

\* allDataDates: every truthy date of every stock of the industries shown.
AllDataDates(toShow, trends) ==
  UNION {UNION {{st[j].date : j \in 1..Len(st)} :
                  st \in ObjectValues(trends[toShow[i].industry].stock_trends)} :
           i \in {k \in 1..Len(toShow) : HasTrend(trends, toShow[k].industry)}}
    \ {0}

RecentDates(toShow, trends, days) ==
  SliceLast(SortAsc(AllDataDates(toShow, trends)), days)

(***************************************************************************)
(* updateIndustryChart: the value of one point.                            *)
(***************************************************************************)
\* stockData.find(item => item.date === date): the first match, <<>> if none.
FindDate(stockData, date) ==
  LET hits == SelectSeq(stockData, LAMBDA e : e.date = date)
  IN  IF hits = <<>> THEN <<>> ELSE <<hits[1]>>

\* stockDateData && stockDateData.change_percent !== undefined
Counted(stockData, date) ==
  /\ FindDate(stockData, date) # <<>>
  /\ FindDate(stockData, date)[1].change_percent # <<>>

\* The loop with count incremented for every stock of the industry.
RECURSIVE SumStocksAllCounted(_, _, _)
SumStocksAllCounted(st, codes, date) ==
  IF codes = {} THEN [total |-> 0, count |-> 0]
  ELSE LET k    == CHOOSE c \in codes : TRUE
           rest == SumStocksAllCounted(st, codes \ {k}, date)
       IN  [total |-> rest.total + (IF Counted(st[k], date)
                                    THEN FindDate(st[k], date)[1].change_percent[1]
                                    ELSE 0),
            count |-> rest.count + 1]

\* The loop over Object.values(trend.stock_trends): [total, count].
RECURSIVE SumStocks(_, _, _)
SumStocks(st, codes, date) ==
  IF codes = {} THEN [total |-> 0, count |-> 0]
  ELSE LET k    == CHOOSE c \in codes : TRUE
           rest == SumStocks(st, codes \ {k}, date)
       IN  IF Counted(st[k], date)
           THEN [total |-> rest.total + FindDate(st[k], date)[1].change_percent[1],
                 count |-> rest.count + 1]
           ELSE rest

\* (total / count).toFixed(2), on hundredths: nearest, ties away from zero.
ToFixed2(total, count) ==
  LET q == (2 * Abs(total) + count) \div (2 * count)
  IN  IF total < 0 THEN -q ELSE q

\* A plotted point: a toFixed string, the literal '0', or a simulated value.
Fixed(v) == [t |-> "fixed", v |-> v]

ZeroString == [t |-> "zero"]

Simulated(b) == [t |-> "random", base |-> b]

\* avgChange of one date
AvgChangePoint(st, date) ==
  LET sc == SumStocks(st, DOMAIN st, date)
  IN  IF sc.count > 0 THEN Fixed(ToFixed2(sc.total, sc.count)) ELSE ZeroString

(***************************************************************************)
(* updateIndustryChart: the series and the option.                         *)
(***************************************************************************)
\* A series from trend data.
RealSeries(ind, trends, dates) ==
  [name |-> ind.industry, real |-> TRUE,
   data |-> [i \in 1..Len(dates) |->
               AvgChangePoint(trends[ind.industry].stock_trends, dates[i])]]

\* A series of simulated data: baseChange plus a random factor in (-1, 1),
\* kept symbolic as the base it is drawn around.
MockSeries(ind, dates) ==
  [name |-> ind.industry, real |-> FALSE,
   data |-> [i \in 1..Len(dates) |-> Simulated(ind.avg_change * 100)]]

BuildSeries(ind, trends, dates) ==
  IF HasTrend(trends, ind.industry) THEN RealSeries(ind, trends, dates)
                                    ELSE MockSeries(ind, dates)

\* The option handed to industryChart.setOption(option, true).
IndustryOption(list, trends, filter, days) ==
  LET toShow == IndustriesToShow(list, filter)
      dates  == RecentDates(toShow, trends, days)
  IN  [set |-> TRUE, dates |-> dates,
       series |-> [i \in 1..Len(toShow) |-> BuildSeries(toShow[i], trends, dates)]]

NoOption == [set |-> FALSE]

(***************************************************************************)
(* JavaScript values of the hierarchy API: numbers, strings, arrays,       *)
(* objects, null and undefined, each with its tag.  An object is a record  *)
(* of the fields the view reads; a field it lacks is Undefined.            *)
(***************************************************************************)
Num(n) == [t |-> "num", n |-> n]

Str(x) == [t |-> "str", s |-> x]

Arr(a) == [t |-> "arr", a |-> a]

Obj(o) == [t |-> "obj", o |-> o]

Undefined == [t |-> "undefined"]

JsNull == [t |-> "null"]

NaN == [t |-> "nan"]

\* ToBoolean
Truthy(v) ==
  CASE v.t = "num" -> v.n # 0
    [] v.t = "str" -> v.s # ""
    [] v.t \in {"arr", "obj"} -> TRUE
    [] OTHER -> FALSE

\* a || b
JsOr(a, b) == IF Truthy(a) THEN a ELSE b

\* v?.[i] (i counted from 0)
At(v, i) ==
  IF v.t = "arr" /\ i + 1 <= Len(v.a) THEN v.a[i + 1] ELSE Undefined

\* v * 10
Times10(v) == IF v.t = "num" THEN Num(v.n * 10) ELSE NaN

\* An object without any of the fields the view reads.
EmptyObj ==
  [data |-> Undefined, name |-> Undefined, industry |-> Undefined,
   stock_name |-> Undefined, value |-> Undefined, market_cap |-> Undefined,
   marketCap |-> Undefined, stock_count |-> Undefined,
   total_stock_count |-> Undefined, stockCount |-> Undefined,
   increase |-> Undefined, change |-> Undefined, children |-> Undefined,
   stocks |-> Undefined]

(***************************************************************************)
(* getIndustryStockHierarchy: the list it returns for a response.          *)
(* A response is [ok, body]; ok is FALSE for a rejected fetch, a non-OK    *)
(* status or a body that is not JSON.                                      *)
(***************************************************************************)
\* getIndustryStockHierarchy without its branch for a single object.
HierarchyListArraysOnly(resp) ==
  IF ~resp.ok THEN <<>>
  ELSE LET data == resp.body
       IN  IF data.t = "obj" /\ Truthy(data.o.data) /\ data.o.data.t = "arr"
           THEN data.o.data.a
           ELSE IF data.t = "arr" THEN data.a
           ELSE <<>>

HierarchyList(resp) ==
  IF ~resp.ok THEN <<>>
  ELSE LET data == resp.body
       IN  IF data.t \in {"null", "undefined"} THEN <<>>   \* data.data throws
           ELSE IF data.t = "obj" /\ Truthy(data.o.data) /\ data.o.data.t = "arr"
                THEN data.o.data.a
           ELSE IF data.t = "arr" THEN data.a
           ELSE IF data.t = "obj" THEN <<data.o>>
           ELSE <<>>

(***************************************************************************)
(* convertApiDataToChartFormat                                             *)
(***************************************************************************)
UnknownIndustry == Str("unknown industry")

UnknownStock == Str("unknown stock")

ConvertStock(stock) ==
  [name  |-> JsOr(stock.name, JsOr(stock.stock_name, UnknownStock)),
   value |-> << JsOr(stock.value, JsOr(stock.market_cap,
                  JsOr(stock.marketCap, JsOr(At(stock.value, 0), Num(0))))),
                Num(1),
                JsOr(stock.increase, JsOr(stock.change,
                  JsOr(At(stock.value, 2), Num(0)))) >>]

ConvertChildren(industry) ==
  IF Truthy(industry.children) /\ industry.children.t = "arr"
  THEN [j \in 1..Len(industry.children.a) |-> ConvertStock(industry.children.a[j])]
  ELSE IF Truthy(industry.stocks) /\ industry.stocks.t = "arr"
  THEN [j \in 1..Len(industry.stocks.a) |-> ConvertStock(industry.stocks.a[j])]
  ELSE <<>>

ConvertIndustry(industry) ==
  [name  |-> JsOr(industry.name, JsOr(industry.industry, UnknownIndustry)),
   value |-> << JsOr(industry.value, JsOr(industry.market_cap,
                  JsOr(industry.marketCap, JsOr(At(industry.value, 0), Num(0))))),
                JsOr(industry.stock_count, JsOr(industry.total_stock_count,
                  JsOr(industry.stockCount, JsOr(At(industry.value, 1), Num(0))))),
                JsOr(industry.increase, JsOr(industry.change,
                  JsOr(At(industry.value, 2), Num(0)))) >>,
   stock_count |-> JsOr(industry.stock_count, JsOr(industry.total_stock_count,
                     JsOr(industry.stockCount, Num(0)))),
   children |-> ConvertChildren(industry)]

ConvertApiDataToChartFormat(apiData) ==
  [i \in 1..Len(apiData) |-> ConvertIndustry(apiData[i])]

(***************************************************************************)
(* The embedded mock data of updateHotmapChart (change in tenths).         *)
(***************************************************************************)
MockStock(n, cap, sec, chg) ==
  [name |-> Str(n), value |-> <<Num(cap), Num(sec), Num(chg)>>]

MockIndustry(n, cap, sec, chg, kids) ==
  [name |-> Str(n), value |-> <<Num(cap), Num(sec), Num(chg)>>,
   stock_count |-> Num(3), children |-> kids]

MockData ==
  << MockIndustry("bank", 100000, 95000, 5,
       << MockStock("PingAn Bank", 3000, 2800, 12),
          MockStock("CMB", 5000, 4800, 8),
          MockStock("ICBC", 8000, 7900, 3) >>),
     MockIndustry("pharma", 80000, 75000, 12,
       << MockStock("Hengrui", 2000, 1950, 25),
          MockStock("WuXi AppTec", 1500, 1450, 18),
          MockStock("Changchun High-Tech", 1000, 1020, -5) >>),
     MockIndustry("electronics", 120000, 125000, -8,
       << MockStock("Kweichow Moutai", 25000, 24800, 7),
          MockStock("CATL", 10000, 9700, 32),
          MockStock("BYD", 8000, 8200, -19) >>) >>

\* The converted data without the fallback.
FinalDataNoFallback(chartData) == chartData

\* chartData.length > 0 ? chartData : [mock data]
FinalData(chartData) == IF Len(chartData) > 0 THEN chartData ELSE MockData

(***************************************************************************)
(* convertData: the visual value of every node.                            *)
(***************************************************************************)
\* value[3] = value[2] * 10
WithVisual(value) ==
  [i \in 1..(IF Len(value) < 4 THEN 4 ELSE Len(value)) |->
     IF i = 4 THEN Times10(value[3])
     ELSE IF i <= Len(value) THEN value[i] ELSE Undefined]

ConvertChild(child) == [child EXCEPT !.value = WithVisual(child.value)]

\* convertData without its inner loop over the children.
ConvertNodeOnly(node) == [node EXCEPT !.value = WithVisual(node.value)]

ConvertNode(node) ==
  [node EXCEPT !.value = WithVisual(node.value),
               !.children = [j \in 1..Len(node.children) |->
                               ConvertChild(node.children[j])]]

ConvertData(originList) ==
  [i \in 1..Len(originList) |-> ConvertNode(originList[i])]

\* The data of the option updateHotmapChart builds for a response.
HotmapData(resp) ==
  ConvertData(FinalData(ConvertApiDataToChartFormat(HierarchyList(resp))))

(***************************************************************************)
(* Inputs: what the user can select and what the API can answer.           *)
(***************************************************************************)
Pages == {1, 2}

\* :page-sizes of the pagination component (two of its four values).
PageSizes == {10, 20}

\* Values of the days select: its default of 90, and 1, which no option of
\* the select offers but handleDaysChange accepts, to make the window bite
\* on the few dates of the bodies below.
DaysOptions == {1, 90}

FilterOptions == {"all", "top3", "bottom3"}

\* Bodies of the industry-analysis endpoint: [isArray, data, total];
\* total is <<n>> or <<>> when the field is absent; data that is not an array
\* is an object with the entries given.
AnalysisBody(isArray, data, total) ==
  [isArray |-> isArray, data |-> data, total |-> total]

AnalysisBodies ==
  { AnalysisBody(TRUE, << Summary("I1", 30), Summary("I3", 20) >>, <<7>>),
    AnalysisBody(TRUE, << Summary("I4", -10) >>, <<>>),
    AnalysisBody(TRUE, <<>>, <<0>>),
    AnalysisBody(FALSE, <<Summary("I1", 30)>>, <<3>>) }

\* Bodies of the trend endpoint.
TrendBody(n, st) == [industry |-> n, stock_trends |-> st]

StocksA ==
  [k \in {1, 2} |->
     IF k = 1 THEN << Entry(1, <<100>>), Entry(2, <<-50>>) >>
     ELSE << Entry(1, <<201>>), Entry(2, <<>>), Entry(3, <<40>>) >>]

StocksB ==
  [k \in {3} |-> << Entry(0, <<5>>), Entry(2, <<>>), Entry(4, <<-33>>) >>]

\* The body the API answers for an industry; it names I3 differently and
\* has no stock_trends for I4.
TrendBodyOf(n) ==
  CASE n = "I1" -> TrendBody("I1", <<StocksA>>)
    [] n = "I2" -> TrendBody("I2", <<StocksB>>)
    [] n = "I3" -> TrendBody("i-3", <<StocksA>>)
    [] OTHER    -> TrendBody(n, <<>>)

\* Bodies of the two LLM endpoints: [industry, llm_analysis]; industry is
\* <<name>> or <<>> when the body has no such field.
LlmBodies ==
  { [industry |-> <<"I1">>, llm_analysis |-> "report"],
    [industry |-> <<>>,     llm_analysis |-> "report"] }

\* Responses of the hierarchy endpoint.
HierarchyResponses ==
  { [ok |-> FALSE, body |-> JsNull],
    [ok |-> TRUE,  body |-> JsNull],
    [ok |-> TRUE,  body |-> Obj([EmptyObj EXCEPT !.data = Arr(<<>>)])],
    [ok |-> TRUE,  body |-> Obj([EmptyObj EXCEPT !.data = Arr(<<
        [EmptyObj EXCEPT !.name = Str("coal"), !.market_cap = Num(900),
                         !.stock_count = Num(2), !.increase = Num(12),
                         !.children = Arr(<<
            [EmptyObj EXCEPT !.name = Str("c1"), !.market_cap = Num(500),
                             !.increase = Num(-7)],
            [EmptyObj EXCEPT !.stock_name = Str("c2"), !.marketCap = Num(400),
                             !.change = Num(31)] >>)] >>)])],
    [ok |-> TRUE,  body |-> Arr(<<
        [EmptyObj EXCEPT !.industry = Str("steel"),
                         !.value = Arr(<<Num(700), Num(1), Num(-4)>>),
                         !.stocks = Arr(<<
            [EmptyObj EXCEPT !.name = Str("s1"),
                             !.value = Arr(<<Num(700), Num(1), Num(-4)>>)] >>)],
        [EmptyObj EXCEPT !.marketCap = Num(50), !.stockCount = Num(9)] >>)],
    [ok |-> TRUE,  body |-> Obj([EmptyObj EXCEPT !.name = Str("solo"),
                                                 !.value = Num(80),
                                                 !.change = Num(6)])] }

(***************************************************************************)
(* State.                                                                  *)
(***************************************************************************)
VARIABLES
  industryAnalysis,       \* rows of the table
  industryTrend,          \* <<>> (null) or <<body>>
  allIndustryTrends,      \* industry name -> [industry, stock_trends]
  loading,
  error,                  \* "null" or the kind of failure message
  daysToShow,
  industryFilter,
  industryAnalysisResult, \* [kind |-> "null"], a result or an error record
  analyzingIndustry,
  analysisLoading,
  industryCurrentPage,
  industryPageSize,
  totalIndustries,
  hotmapLoading,
  industryChartRef,       \* the DOM holds the chart div (and the table)
  industryChart,          \* [created, option]
  marketHotmapChart,      \* [created, option]
  mounted,
  analysisReqs,           \* requests in flight, in the order of issue
  trendReqs,
  batches,                \* getAllIndustryTrends calls awaiting Promise.all
  hierarchyReqs,
  llmReqs,
  hotmapInitTimer,        \* "unset", "pending", "fired"
  hotmapRenderTimers,     \* setTimeout(..., 100) closures, each with its data
  resizeTimers,           \* setTimeout(..., 0) of the resize listener
  ops,                    \* user events so far
  last                    \* the step just taken, see Step

\* The reactive state the hotmap does not touch.
tableVars ==
  << industryAnalysis, industryTrend, allIndustryTrends, loading,
     daysToShow, industryFilter, industryAnalysisResult, analyzingIndustry,
     analysisLoading, industryCurrentPage, industryPageSize, totalIndustries,
     industryChartRef, analysisReqs, trendReqs, batches, llmReqs >>

vars ==
  << industryAnalysis, industryTrend, allIndustryTrends, loading, error,
     daysToShow, industryFilter, industryAnalysisResult, analyzingIndustry,
     analysisLoading, industryCurrentPage, industryPageSize, totalIndustries,
     hotmapLoading, industryChartRef, industryChart, marketHotmapChart,
     mounted, analysisReqs, trendReqs, batches, hierarchyReqs, llmReqs,
     hotmapInitTimer, hotmapRenderTimers, resizeTimers, ops, last >>

\* A request on the network.
Request(kind, industry, page, size, days) ==
  [kind |-> kind, industry |-> industry, page |-> page, size |-> size,
   days |-> days]

AnalysisRequest(page, size) == Request("analysis", "", page, size, 0)

TrendRequest(industry) == Request("trend", industry, 0, 0, 0)

HierarchyRequest == Request("hierarchy", "", 0, 0, 0)

LlmRequest(industry, days) == Request("llm", industry, 0, 0, days)

LlmAllRequest(days) == Request("llmAll", "", 0, 0, days)

\* The record of a step: the handler, its numeric and its industry argument,
\* the response it handled (<<>> when none), what it did to the charts, the
\* requests it sent, and (for a join) the requests of the batch that had not
\* settled.
Step(op, arg, name, input, effects, sent, pending) ==
  [op |-> op, arg |-> arg, name |-> name, input |-> input,
   effects |-> effects, sent |-> sent, pending |-> pending]

NullResult == [kind |-> "null"]

ErrorResult(industry, text) ==
  [kind |-> "error", industry |-> <<industry>>, error |-> text]

AllIndustriesLabel == "all industries"

NoTrends == [n \in {} |-> 0]

\* The DOM after a flush: the chart div and the table are rendered when the
\* view is not loading and has rows.
ChartDivRendered(isLoading, list) == ~isLoading /\ Len(list) > 0

Init ==
  /\ industryAnalysis = <<>>
  /\ industryTrend = <<>>
  /\ allIndustryTrends = NoTrends
  /\ loading = FALSE
  /\ error = "null"
  /\ daysToShow = 90
  /\ industryFilter = "top3"
  /\ industryAnalysisResult = NullResult
  /\ analyzingIndustry = ""
  /\ analysisLoading = FALSE
  /\ industryCurrentPage = 1
  /\ industryPageSize = 20
  /\ totalIndustries = 0
  /\ hotmapLoading = FALSE
  /\ industryChartRef = FALSE
  /\ industryChart = [created |-> FALSE, option |-> NoOption]
  /\ marketHotmapChart = [created |-> FALSE, option |-> NoOption]
  /\ mounted = FALSE
  /\ analysisReqs = <<>>
  /\ trendReqs = <<>>
  /\ batches = <<>>
  /\ hierarchyReqs = 0
  /\ llmReqs = <<>>
  /\ hotmapInitTimer = "unset"
  /\ hotmapRenderTimers = <<>>
  /\ resizeTimers = 0
  /\ ops = 0
  /\ last = Step("init", 0, "", <<>>, {}, <<>>, 0)

\* updateIndustryChart setting the option only on the chart it creates.
UpdateIndustryChartOnce(chart, ref, list, trends, filter, days) ==
  IF Len(list) = 0 \/ chart.created \/ ~ref
  THEN [chart |-> chart, effects |-> {}]
  ELSE [chart   |-> [created |-> TRUE,
                     option  |-> IndustryOption(list, trends, filter, days)],
        effects |-> {"line.init", "line.setOption"}]

(***************************************************************************)
(* updateIndustryChart as a whole: the chart after the call and what the   *)
(* call did to it.  ref is industryChartRef.value at the time of the call. *)
(***************************************************************************)
UpdateIndustryChart(chart, ref, list, trends, filter, days) ==
  IF Len(list) = 0 THEN [chart |-> chart, effects |-> {}]
  ELSE IF ~chart.created /\ ~ref THEN [chart |-> chart, effects |-> {}]
  ELSE [chart   |-> [created |-> TRUE,
                     option  |-> IndustryOption(list, trends, filter, days)],
        effects |-> (IF chart.created THEN {} ELSE {"line.init"})
                      \cup {"line.setOption"}]

(***************************************************************************)
(* getIndustryAnalysis and the pagination handlers.                        *)
(***************************************************************************)
\* The request getIndustryAnalysis sends.
AnalysisRequestOf(page, size) == AnalysisRequest(page, size)

\* The part of getIndustryAnalysis before its await.
StartIndustryAnalysis(op, arg) ==
  /\ loading' = TRUE
  /\ error' = "null"
  /\ analysisReqs' = Append(analysisReqs,
                       AnalysisRequestOf(industryCurrentPage', industryPageSize'))
  /\ industryChartRef' = ChartDivRendered(TRUE, industryAnalysis)
  /\ last' = Step(op, arg, "", <<>>, {},
                  <<AnalysisRequestOf(industryCurrentPage', industryPageSize')>>, 0)
  /\ UNCHANGED << industryAnalysis, industryTrend, allIndustryTrends,
                  daysToShow, industryFilter, industryAnalysisResult,
                  analyzingIndustry, analysisLoading, totalIndustries,
                  hotmapLoading, industryChart, trendReqs, batches, llmReqs,
                  hotmapRenderTimers, resizeTimers >>

\* onMounted: the hotmap is initialised 200 ms later, the rows are fetched.
Mounted ==
  /\ ~mounted
  /\ mounted' = TRUE
  /\ hotmapInitTimer' = "pending"
  /\ UNCHANGED << industryCurrentPage, industryPageSize >>
  /\ StartIndustryAnalysis("mounted", 0)
  /\ UNCHANGED << marketHotmapChart, hierarchyReqs, ops >>

UserEvent ==
  /\ mounted
  /\ ops < MaxOps
  /\ ops' = ops + 1

\* The page the handler stores.
PageAfterPageChange(page) == page

HandleIndustryPageChange(page) ==
  /\ UserEvent
  /\ Len(analysisReqs) < MaxInFlight
  /\ industryCurrentPage' = PageAfterPageChange(page)
  /\ UNCHANGED industryPageSize
  /\ StartIndustryAnalysis("handleIndustryPageChange", page)
  /\ UNCHANGED << marketHotmapChart, mounted, hierarchyReqs, hotmapInitTimer >>

\* The size handler without its reset of the page.
PageKeptAfterSizeChange == industryCurrentPage

\* The page the size handler stores.
PageAfterSizeChange == 1

HandleIndustrySizeChange(size) ==
  /\ UserEvent
  /\ Len(analysisReqs) < MaxInFlight
  /\ industryPageSize' = size
  /\ industryCurrentPage' = PageAfterSizeChange
  /\ StartIndustryAnalysis("handleIndustrySizeChange", size)
  /\ UNCHANGED << marketHotmapChart, mounted, hierarchyReqs, hotmapInitTimer >>

\* data.data without the Array.isArray test.
RowsOfUnchecked(body) == body.data

\* Array.isArray(data.data) ? data.data : []
RowsOf(body) == IF body.isArray THEN body.data ELSE <<>>

\* data.total || 0
TotalOf(body) == IF body.total # <<>> THEN body.total[1] ELSE 0

\* A result of one request of a batch.
Pending == [st |-> "pending"]

Failed == [st |-> "failed"]

Ok(body) == [st |-> "ok", body |-> body]

\* industries.map(async ...): one request per row, all sent before the await.
BatchIndustries(list) == [i \in 1..Len(list) |-> list[i].industry]

NewBatch(list) ==
  [industries |-> BatchIndustries(list),
   results    |-> [i \in 1..Len(list) |-> Pending]]

BatchRequests(list) ==
  [i \in 1..Len(BatchIndustries(list)) |-> TrendRequest(BatchIndustries(list)[i])]

\* The continuation of getIndustryAnalysis for an OK response with a JSON
\* body: rows and total are stored, the chart update is scheduled with
\* nextTick, getAllIndustryTrends runs up to its await when there are rows,
\* loading is reset; then the DOM is flushed and the chart update runs.
AnalysisResponse(i, body) ==
  /\ i \in 1..Len(analysisReqs)
  /\ analysisReqs' = RemoveAt(analysisReqs, i)
  /\ industryAnalysis' = RowsOf(body)
  /\ totalIndustries' = TotalOf(body)
  /\ IF Len(RowsOf(body)) > 0
     THEN /\ error' = "null"
          /\ batches' = Append(batches, NewBatch(RowsOf(body)))
     ELSE UNCHANGED << error, batches >>
  /\ loading' = FALSE
  /\ industryChartRef' = ChartDivRendered(FALSE, RowsOf(body))
  /\ LET u == UpdateIndustryChart(industryChart, industryChartRef', RowsOf(body),
                                  allIndustryTrends, industryFilter, daysToShow)
     IN  /\ industryChart' = u.chart
         /\ last' = Step("analysisResponse", i, "", body, u.effects,
                         IF Len(RowsOf(body)) > 0 THEN BatchRequests(RowsOf(body))
                                                  ELSE <<>>, 0)
  /\ UNCHANGED << industryTrend, allIndustryTrends, daysToShow, industryFilter,
                  industryAnalysisResult, analyzingIndustry, analysisLoading,
                  industryCurrentPage, industryPageSize, hotmapLoading,
                  marketHotmapChart, mounted, trendReqs, hierarchyReqs, llmReqs,
                  hotmapInitTimer, hotmapRenderTimers, resizeTimers, ops >>

\* A catch block that leaves the rows alone.
RowsKeptAfterFailure(rows) == rows

\* The rows the catch block leaves.
RowsAfterFailure(rows) == <<>>

\* The catch and finally blocks of getIndustryAnalysis: the fetch rejected,
\* the status was not OK, or the body was not JSON.
AnalysisFailure(i) ==
  /\ i \in 1..Len(analysisReqs)
  /\ analysisReqs' = RemoveAt(analysisReqs, i)
  /\ error' = "analysisFailed"
  /\ industryAnalysis' = RowsAfterFailure(industryAnalysis)
  /\ totalIndustries' = 0
  /\ loading' = FALSE
  /\ industryChartRef' = ChartDivRendered(FALSE, industryAnalysis')
  /\ last' = Step("analysisFailure", i, "", <<>>, {}, <<>>, 0)
  /\ UNCHANGED << industryTrend, allIndustryTrends, daysToShow, industryFilter,
                  industryAnalysisResult, analyzingIndustry, analysisLoading,
                  industryCurrentPage, industryPageSize, hotmapLoading,
                  industryChart, marketHotmapChart, mounted, trendReqs, batches,
                  hierarchyReqs, llmReqs, hotmapInitTimer, hotmapRenderTimers,
                  resizeTimers, ops >>

(***************************************************************************)
(* getAllIndustryTrends after its await.                                   *)
(***************************************************************************)
\* Promise.race in the place of Promise.all: the first settled request.
JoinOnFirst(results) == \E i \in 1..Len(results) : results[i] # Pending

\* Promise.all(trendPromises) resolves: no request of the batch is pending.
JoinReady(results) == \A i \in 1..Len(results) : results[i] # Pending

PendingCount(results) ==
  Cardinality({i \in 1..Len(results) : results[i] = Pending})

\* trend && trend.stock_trends
Usable(result) == result.st = "ok" /\ result.body.stock_trends # <<>>

\* The key under which the trend of request i is stored.
TrendKey(industries, i) == industries[i]

\* trendsData: the usable results, keyed by the name that was requested and
\* with their industry field overwritten by it; a later index wins.
TrendsData(batch) ==
  LET idx == {i \in 1..Len(batch.results) : Usable(batch.results[i])}
      keys == {TrendKey(batch.industries, i) : i \in idx}
      LastOf(n) == CHOOSE i \in idx :
                     /\ TrendKey(batch.industries, i) = n
                     /\ \A j \in idx : TrendKey(batch.industries, j) = n => j <= i
  IN  [n \in keys |->
         [industry |-> n,
          stock_trends |-> batch.results[LastOf(n)].body.stock_trends[1]]]

\* The result a settled request of the batch leaves in its promise.
SettledResult(industry, outcome) ==
  IF outcome = "ok" THEN Ok(TrendBodyOf(industry)) ELSE Failed

\* One request of a batch settles: with a body, or with a rejected fetch or
\* a non-OK status, which the inner catch turns into null.  When it was the
\* last one, Promise.all resolves and the rest of getAllIndustryTrends runs
\* in the same turn: the trends are stored, the chart update scheduled with
\* nextTick runs before the DOM is flushed, loading is reset.
BatchTrendSettles(b, i, outcome) ==
  /\ b \in 1..Len(batches)
  /\ i \in 1..Len(batches[b].results)
  /\ batches[b].results[i] = Pending
  /\ LET batch == [batches[b] EXCEPT
                     !.results[i] = SettledResult(batches[b].industries[i], outcome)]
     IN  IF JoinReady(batch.results)
         THEN LET u == UpdateIndustryChart(industryChart, industryChartRef,
                          industryAnalysis, TrendsData(batch), industryFilter,
                          daysToShow)
              IN  /\ batches' = RemoveAt(batches, b)
                  /\ allIndustryTrends' = TrendsData(batch)
                  /\ industryChart' = u.chart
                  /\ loading' = FALSE
                  /\ industryChartRef' = ChartDivRendered(FALSE, industryAnalysis)
                  /\ last' = Step("batchJoin", b, outcome, <<>>, u.effects, <<>>,
                                  PendingCount(batch.results))
         ELSE /\ batches' = [batches EXCEPT ![b] = batch]
              /\ last' = Step("batchTrendSettles", b, outcome, <<>>, {}, <<>>,
                              PendingCount(batch.results))
              /\ UNCHANGED << allIndustryTrends, industryChart, loading,
                              industryChartRef >>
  /\ UNCHANGED << industryAnalysis, industryTrend, error, daysToShow,
                  industryFilter, industryAnalysisResult, analyzingIndustry,
                  analysisLoading, industryCurrentPage, industryPageSize,
                  totalIndustries, hotmapLoading, marketHotmapChart, mounted,
                  analysisReqs, trendReqs, hierarchyReqs, llmReqs,
                  hotmapInitTimer, hotmapRenderTimers, resizeTimers, ops >>

\* The body of an OK response of the batch is not JSON: response.json() is
\* returned without await, so the promise of the request rejects, Promise.all
\* rejects at once and the outer catch and finally blocks run.
BatchTrendRejects(b, i) ==
  /\ b \in 1..Len(batches)
  /\ i \in 1..Len(batches[b].results)
  /\ batches[b].results[i] = Pending
  /\ batches' = RemoveAt(batches, b)
  /\ error' = "allTrendsFailed"
  /\ loading' = FALSE
  /\ industryChartRef' = ChartDivRendered(FALSE, industryAnalysis)
  /\ last' = Step("batchTrendRejects", b, "", <<>>, {}, <<>>,
                  PendingCount(batches[b].results) - 1)
  /\ UNCHANGED << industryAnalysis, industryTrend, allIndustryTrends,
                  daysToShow, industryFilter, industryAnalysisResult,
                  analyzingIndustry, analysisLoading, industryCurrentPage,
                  industryPageSize, totalIndustries, hotmapLoading,
                  industryChart, marketHotmapChart, mounted, analysisReqs,
                  trendReqs, hierarchyReqs, llmReqs, hotmapInitTimer,
                  hotmapRenderTimers, resizeTimers, ops >>

(***************************************************************************)
(* The controls above the chart and the buttons of a row exist while the   *)
(* chart div and the table are rendered.                                   *)
(***************************************************************************)
RowNames == {industryAnalysis[i].industry : i \in 1..Len(industryAnalysis)}

RowEvent(industry) ==
  /\ UserEvent
  /\ industryChartRef
  /\ industry \in RowNames

\* handleDaysChange and handleIndustryFilterChange
ChartControl(op, days, filter) ==
  /\ UserEvent
  /\ industryChartRef
  /\ daysToShow' = days
  /\ industryFilter' = filter
  /\ LET u == UpdateIndustryChart(industryChart, industryChartRef,
                 industryAnalysis, allIndustryTrends, filter, days)
     IN  /\ industryChart' = u.chart
         /\ last' = Step(op, days, filter, <<>>, u.effects, <<>>, 0)
  /\ UNCHANGED << industryAnalysis, industryTrend, allIndustryTrends, loading,
                  error, industryAnalysisResult, analyzingIndustry,
                  analysisLoading, industryCurrentPage, industryPageSize,
                  totalIndustries, hotmapLoading, industryChartRef,
                  marketHotmapChart, mounted, analysisReqs, trendReqs, batches,
                  hierarchyReqs, llmReqs, hotmapInitTimer, hotmapRenderTimers,
                  resizeTimers >>

HandleDaysChange(value) ==
  ChartControl("handleDaysChange", value, industryFilter)

HandleIndustryFilterChange(value) ==
  ChartControl("handleIndustryFilterChange", daysToShow, value)

(***************************************************************************)
(* getIndustryTrend                                                        *)
(***************************************************************************)
GetIndustryTrend(industry) ==
  /\ RowEvent(industry)
  /\ Len(trendReqs) < MaxInFlight
  /\ loading' = TRUE
  /\ error' = "null"
  /\ trendReqs' = Append(trendReqs, industry)
  /\ industryChartRef' = ChartDivRendered(TRUE, industryAnalysis)
  /\ last' = Step("getIndustryTrend", 0, industry, <<>>, {},
                  <<TrendRequest(industry)>>, 0)
  /\ UNCHANGED << industryAnalysis, industryTrend, allIndustryTrends,
                  daysToShow, industryFilter, industryAnalysisResult,
                  analyzingIndustry, analysisLoading, industryCurrentPage,
                  industryPageSize, totalIndustries, hotmapLoading,
                  industryChart, marketHotmapChart, mounted, analysisReqs,
                  batches, hierarchyReqs, llmReqs, hotmapInitTimer,
                  hotmapRenderTimers, resizeTimers >>

\* The error the catch block of getIndustryTrend stores.
TrendFailureError == "trendFailed"

\* A catch block that clears the trend on display.
TrendClearedAfterFailure(trend) == <<>>

\* The trend the catch block leaves: it does not assign industryTrend.
TrendAfterFailure(trend) == trend

TrendSettles(i, ok) ==
  /\ i \in 1..Len(trendReqs)
  /\ trendReqs' = RemoveAt(trendReqs, i)
  /\ IF ok
     THEN /\ industryTrend' = <<TrendBodyOf(trendReqs[i])>>
          /\ UNCHANGED error
     ELSE /\ error' = TrendFailureError
          /\ industryTrend' = TrendAfterFailure(industryTrend)
  /\ loading' = FALSE
  /\ industryChartRef' = ChartDivRendered(FALSE, industryAnalysis)
  /\ last' = Step(IF ok THEN "trendResponse" ELSE "trendFailure", i,
                  trendReqs[i], <<>>, {}, <<>>, 0)
  /\ UNCHANGED << industryAnalysis, allIndustryTrends, daysToShow,
                  industryFilter, industryAnalysisResult, analyzingIndustry,
                  analysisLoading, industryCurrentPage, industryPageSize,
                  totalIndustries, hotmapLoading, industryChart,
                  marketHotmapChart, mounted, analysisReqs, batches,
                  hierarchyReqs, llmReqs, hotmapInitTimer, hotmapRenderTimers,
                  resizeTimers, ops >>

TrendResponse(i) == TrendSettles(i, TRUE)

TrendFailure(i) == TrendSettles(i, FALSE)

(***************************************************************************)
(* analyzeIndustry.  With trend data the statistics are computed and the   *)
(* result literal then reads positiveRate, a name that is bound nowhere:   *)
(* the ReferenceError is caught and the result is the error record.        *)
(***************************************************************************)
\* analyzeIndustry without its guard: reading stock_trends of undefined
\* throws as well.
AnalyzeIndustryUnguarded(industry, trends) ==
  ErrorResult(industry, "analyzeFailed")

AnalyzeIndustryResult(industry, trends) ==
  IF ~HasTrend(trends, industry)
  THEN ErrorResult(industry, "noTrendData")
  ELSE ErrorResult(industry, "analyzeFailed")

AnalyzeIndustry(industry) ==
  /\ RowEvent(industry)
  /\ analyzingIndustry' = industry
  /\ industryAnalysisResult' = AnalyzeIndustryResult(industry, allIndustryTrends)
  /\ analysisLoading' = FALSE
  /\ last' = Step("analyzeIndustry", 0, industry, <<>>, {}, <<>>, 0)
  /\ UNCHANGED << industryAnalysis, industryTrend, allIndustryTrends, loading,
                  error, daysToShow, industryFilter, industryCurrentPage,
                  industryPageSize, totalIndustries, hotmapLoading,
                  industryChartRef, industryChart, marketHotmapChart, mounted,
                  analysisReqs, trendReqs, batches, hierarchyReqs, llmReqs,
                  hotmapInitTimer, hotmapRenderTimers, resizeTimers >>

(***************************************************************************)
(* analyzeIndustryWithLLM and analyzeAllIndustriesWithLLM                  *)
(***************************************************************************)
StartLlm(op, all, industry, request) ==
  /\ UserEvent
  /\ industryChartRef
  /\ Len(llmReqs) < MaxInFlight
  /\ analysisLoading' = TRUE
  /\ analyzingIndustry' = industry
  /\ industryAnalysisResult' = NullResult
  /\ llmReqs' = Append(llmReqs, [all |-> all, industry |-> industry])
  /\ last' = Step(op, 0, industry, <<>>, {}, <<request>>, 0)
  /\ UNCHANGED << industryAnalysis, industryTrend, allIndustryTrends, loading,
                  error, daysToShow, industryFilter, industryCurrentPage,
                  industryPageSize, totalIndustries, hotmapLoading,
                  industryChartRef, industryChart, marketHotmapChart, mounted,
                  analysisReqs, trendReqs, batches, hierarchyReqs,
                  hotmapInitTimer, hotmapRenderTimers, resizeTimers >>

AnalyzeIndustryWithLLM(industry) ==
  /\ industry \in RowNames
  /\ StartLlm("analyzeIndustryWithLLM", FALSE, industry,
              LlmRequest(industry, daysToShow))

AnalyzeAllIndustriesWithLLM ==
  StartLlm("analyzeAllIndustriesWithLLM", TRUE, AllIndustriesLabel,
           LlmAllRequest(daysToShow))

\* The label written after the spread: { ...data, industry: label }.
LlmResultLabelLast(req, body) ==
  [kind |-> "data",
   industry |-> IF req.all THEN <<AllIndustriesLabel>> ELSE body.industry,
   llm_analysis |-> body.llm_analysis]

\* data, or { industry: label, ...data } where a field of data wins.
LlmResult(req, body) ==
  [kind |-> "data",
   industry |-> IF req.all /\ body.industry = <<>> THEN <<AllIndustriesLabel>>
                ELSE body.industry,
   llm_analysis |-> body.llm_analysis]

\* The record the catch blocks of the two LLM calls store.
LlmFailureResult(req) == ErrorResult(req.industry, "llmFailed")

LlmSettles(i, op, input, result) ==
  /\ i \in 1..Len(llmReqs)
  /\ llmReqs' = RemoveAt(llmReqs, i)
  /\ industryAnalysisResult' = result
  /\ analysisLoading' = FALSE
  /\ last' = Step(op, i, llmReqs[i].industry, input, {}, <<>>, 0)
  /\ UNCHANGED << industryAnalysis, industryTrend, allIndustryTrends, loading,
                  error, daysToShow, industryFilter, analyzingIndustry,
                  industryCurrentPage, industryPageSize, totalIndustries,
                  hotmapLoading, industryChartRef, industryChart,
                  marketHotmapChart, mounted, analysisReqs, trendReqs, batches,
                  hierarchyReqs, hotmapInitTimer, hotmapRenderTimers,
                  resizeTimers, ops >>

LlmResponse(i, body) ==
  /\ i \in 1..Len(llmReqs)
  /\ LlmSettles(i, "llmResponse", body, LlmResult(llmReqs[i], body))

LlmFailure(i) ==
  /\ i \in 1..Len(llmReqs)
  /\ LlmSettles(i, "llmFailure", <<>>, LlmFailureResult(llmReqs[i]))

(***************************************************************************)
(* The hotmap: initHotmapChart, getHotmapData, updateHotmapChart.          *)
(* marketHotmapRef, the container, is rendered for as long as the view is  *)
(* mounted.                                                                *)
(***************************************************************************)
HotOption(data) == [set |-> TRUE, data |-> data]

\* The part of updateHotmapChart before its await, the chart being there.
StartHotmapUpdate ==
  /\ hotmapLoading' = TRUE
  /\ hierarchyReqs' = hierarchyReqs + 1

\* setTimeout(initHotmapChart, 200) of onMounted fires: a chart instance is
\* created (the previous one disposed) and updateHotmapChart is called.
HotmapInitTimer ==
  /\ hotmapInitTimer = "pending"
  /\ hotmapInitTimer' = "fired"
  /\ marketHotmapChart' = [created |-> TRUE, option |-> NoOption]
  /\ StartHotmapUpdate
  /\ last' = Step("initHotmapChart", 0, "", <<>>,
                  (IF marketHotmapChart.created THEN {"hot.dispose"} ELSE {})
                    \cup {"hot.init"},
                  <<HierarchyRequest>>, 0)
  /\ UNCHANGED << tableVars, error, industryChart, mounted,
                  hotmapRenderTimers, resizeTimers, ops >>

\* The refresh button: getHotmapData calls updateHotmapChart, which creates
\* the chart when there is none yet and then fetches the hierarchy.  The
\* catch block of getHotmapData cannot run: updateHotmapChart is async and
\* handles its own errors.
GetHotmapData ==
  /\ UserEvent
  /\ hierarchyReqs < MaxInFlight
  /\ error' = "null"
  /\ marketHotmapChart' = [marketHotmapChart EXCEPT !.created = TRUE]
  /\ StartHotmapUpdate
  /\ last' = Step("getHotmapData", 0, "", <<>>,
                  IF marketHotmapChart.created THEN {} ELSE {"hot.init"},
                  <<HierarchyRequest>>, 0)
  /\ UNCHANGED << tableVars, industryChart, mounted, hotmapInitTimer,
                  hotmapRenderTimers, resizeTimers >>

\* The continuation of updateHotmapChart once getIndustryStockHierarchy has
\* returned its list: the data is converted, the chart cleared and given the
\* option, a re-render is scheduled 100 ms later, hotmapLoading is reset.
HierarchySettles(resp) ==
  /\ hierarchyReqs > 0
  /\ hierarchyReqs' = hierarchyReqs - 1
  /\ marketHotmapChart' = [marketHotmapChart EXCEPT
                             !.option = HotOption(HotmapData(resp))]
  /\ hotmapRenderTimers' = Append(hotmapRenderTimers, HotmapData(resp))
  /\ hotmapLoading' = FALSE
  /\ last' = Step(IF resp.ok THEN "hierarchyResponse" ELSE "hierarchyFailure",
                  0, "", resp, {"hot.clear", "hot.setOption"}, <<>>, 0)
  /\ UNCHANGED << tableVars, error, industryChart, mounted, hotmapInitTimer,
                  resizeTimers, ops >>

\* The 100 ms timer of updateHotmapChart: resize and setOption(option, true)
\* with the option of the call that set the timer.  Timers of equal delay
\* fire in the order they were set.
HotmapRenderTimer ==
  /\ hotmapRenderTimers # <<>>
  /\ hotmapRenderTimers' = Tail(hotmapRenderTimers)
  /\ marketHotmapChart' = [marketHotmapChart EXCEPT
                             !.option = HotOption(Head(hotmapRenderTimers))]
  /\ last' = Step("hotmapRenderTimer", 0, "", <<>>, {"hot.resize", "hot.setOption"},
                  <<>>, 0)
  /\ UNCHANGED << tableVars, error, hotmapLoading, industryChart, mounted,
                  hierarchyReqs, hotmapInitTimer, resizeTimers, ops >>

(***************************************************************************)
(* The resize listener of the window.                                      *)
(***************************************************************************)
WindowResize ==
  /\ UserEvent
  /\ resizeTimers < MaxInFlight
  /\ resizeTimers' = resizeTimers + 1
  /\ last' = Step("windowResize", 0, "", <<>>, {}, <<>>, 0)
  /\ UNCHANGED << tableVars, error, hotmapLoading, industryChart,
                  marketHotmapChart, mounted, hierarchyReqs, hotmapInitTimer,
                  hotmapRenderTimers >>

\* What the timer of the listener does to the charts that exist; no chart
\* is ever disposed without being replaced.
ResizeEffects(line, hot) ==
  (IF line.created THEN {"line.resize"} ELSE {})
    \cup (IF hot.created THEN {"hot.resize"} ELSE {})

ResizeTimer ==
  /\ resizeTimers > 0
  /\ resizeTimers' = resizeTimers - 1
  /\ last' = Step("resizeTimer", 0, "", <<>>,
                  ResizeEffects(industryChart, marketHotmapChart), <<>>, 0)
  /\ UNCHANGED << tableVars, error, hotmapLoading, industryChart,
                  marketHotmapChart, mounted, hierarchyReqs, hotmapInitTimer,
                  hotmapRenderTimers, ops >>

(***************************************************************************)
(* The view.                                                               *)
(***************************************************************************)
\* The table, its pagination, the trend requests and the line chart.
NextTable ==
  \/ Mounted
  \/ \E page \in Pages : HandleIndustryPageChange(page)
  \/ \E size \in PageSizes : HandleIndustrySizeChange(size)
  \/ \E i \in 1..MaxInFlight, body \in AnalysisBodies : AnalysisResponse(i, body)
  \/ \E i \in 1..MaxInFlight : AnalysisFailure(i)
  \/ \E b \in 1..Len(batches) :
       \E i \in 1..Len(batches[b].results), outcome \in {"ok", "failed"} :
         BatchTrendSettles(b, i, outcome)
  \/ \E b \in 1..Len(batches) :
       \E i \in 1..Len(batches[b].results) : BatchTrendRejects(b, i)
  \/ \E value \in DaysOptions : HandleDaysChange(value)
  \/ \E value \in FilterOptions : HandleIndustryFilterChange(value)
  \/ \E industry \in RowNames : GetIndustryTrend(industry)
  \/ \E i \in 1..MaxInFlight : TrendResponse(i)
  \/ \E i \in 1..MaxInFlight : TrendFailure(i)

\* The analysis of an industry, locally and by the LLM endpoints.
NextAnalysis ==
  \/ \E industry \in RowNames : AnalyzeIndustry(industry)
  \/ \E industry \in RowNames : AnalyzeIndustryWithLLM(industry)
  \/ AnalyzeAllIndustriesWithLLM
  \/ \E i \in 1..MaxInFlight, body \in LlmBodies : LlmResponse(i, body)
  \/ \E i \in 1..MaxInFlight : LlmFailure(i)

\* The hotmap.
NextHotmap ==
  \/ HotmapInitTimer
  \/ GetHotmapData
  \/ \E resp \in HierarchyResponses : HierarchySettles(resp)
  \/ HotmapRenderTimer

\* The resize listener.
NextResize ==
  \/ WindowResize
  \/ ResizeTimer

Next == NextTable \/ NextAnalysis \/ NextHotmap \/ NextResize

Spec == Init /\ [][Next]_vars

(***************************************************************************)
(* The parts of the view taken one at a time.  The table and the hotmap    *)
(* share no state but error, which the hotmap only resets, so what a       *)
(* handler of one part does is the same whether or not the other part      *)
(* runs; each part is explored with the other one idle.                    *)
(***************************************************************************)
SpecTable == Init /\ [][NextTable]_vars

SpecHotmap == Init /\ [][Mounted \/ NextHotmap \/ NextResize]_vars

(***************************************************************************)
(* The refresh of the two charts: the fetches started by mounting the view *)
(* and by the refresh button, and window resizes.                          *)
(***************************************************************************)
NextRefresh ==
  \/ Mounted
  \/ \E i \in 1..MaxInFlight, body \in AnalysisBodies : AnalysisResponse(i, body)
  \/ \E i \in 1..MaxInFlight : AnalysisFailure(i)
  \/ \E b \in 1..Len(batches) :
       \E i \in 1..Len(batches[b].results), outcome \in {"ok", "failed"} :
         BatchTrendSettles(b, i, outcome)
  \/ \E b \in 1..Len(batches) :
       \E i \in 1..Len(batches[b].results) : BatchTrendRejects(b, i)
  \/ NextHotmap
  \/ NextResize

SpecRefresh == Init /\ [][NextRefresh]_vars

(***************************************************************************)
(* The buttons of a row: the view loads its first page and its trends, and *)
(* the user asks for the trend or an analysis of an industry.              *)
(***************************************************************************)
NextRows ==
  \/ Mounted
  \/ \E i \in 1..MaxInFlight, body \in AnalysisBodies : AnalysisResponse(i, body)
  \/ \E i \in 1..MaxInFlight : AnalysisFailure(i)
  \/ \E b \in 1..Len(batches) :
       \E i \in 1..Len(batches[b].results), outcome \in {"ok", "failed"} :
         BatchTrendSettles(b, i, outcome)
  \/ \E b \in 1..Len(batches) :
       \E i \in 1..Len(batches[b].results) : BatchTrendRejects(b, i)
  \/ \E industry \in RowNames : GetIndustryTrend(industry)
  \/ \E i \in 1..MaxInFlight : TrendResponse(i)
  \/ \E i \in 1..MaxInFlight : TrendFailure(i)
  \/ NextAnalysis

SpecRows == Init /\ [][NextRows]_vars

\* A request to an LLM endpoint is answered or fails in the end: the promise
\* of fetch settles, and the continuation of the await is then run.
LlmCompletes ==
  \E i \in 1..MaxInFlight :
    \/ LlmFailure(i)
    \/ \E body \in LlmBodies : LlmResponse(i, body)

SpecRowsFair == SpecRows /\ WF_vars(LlmCompletes)

(***************************************************************************)
(* updateIndustryChart on its own: the view has loaded a page of rows and  *)
(* the trends of some of them, and the user works the two selects.         *)
(***************************************************************************)
ChartNames == <<"I1", "I2", "I3", "I4">>

ChartChanges == {-10, 20, 30}

\* Pages of up to MaxChartRows rows with every combination of avg_change.
ChartRows(n) ==
  {[i \in 1..n |-> Summary(ChartNames[i], c[i])] : c \in [1..n -> ChartChanges]}

\* What a stock has for a date: no entry, an entry without change_percent,
\* or an entry with one.
StockCells == {"none", "undefined", "down", "up"}

CellEntry(date, cell) ==
  CASE cell = "none"      -> <<>>
    [] cell = "undefined" -> <<Entry(date, <<>>)>>
    [] cell = "down"      -> <<Entry(date, <<-5>>)>>
    [] OTHER              -> <<Entry(date, <<10>>)>>

\* The entries of a stock over the dates 1 and 2, in ascending order.
StockSeries == {CellEntry(1, a) \o CellEntry(2, b) : a, b \in StockCells}

\* Trend data of one industry with up to two stocks.
ChartStockTrends ==
  UNION {[1..n -> StockSeries] : n \in 0..2}

\* The trends of a subset of the rows, each with the data of TrendBodyOf.
FixedTrends(S) ==
  [n \in S |-> [industry |-> n,
                stock_trends |-> IF n = "I2" THEN StocksB ELSE StocksA]]

ChartInputs ==
  {[rows |-> r, trends |-> FixedTrends(S)] :
     r \in ChartRows(4) \cup ChartRows(2), S \in SUBSET {"I1", "I2", "I4"}}
  \cup
  {[rows |-> <<Summary("I1", 30)>>,
    trends |-> [n \in {"I1"} |-> [industry |-> n, stock_trends |-> st]]] :
     st \in ChartStockTrends}

InitChart ==
  \E in \in ChartInputs :
    /\ industryAnalysis = in.rows
    /\ allIndustryTrends = in.trends
    /\ industryChart = [created |-> TRUE,
                        option  |-> IndustryOption(in.rows, in.trends, "top3", 90)]
    /\ industryTrend = <<>>
    /\ loading = FALSE
    /\ error = "null"
    /\ daysToShow = 90
    /\ industryFilter = "top3"
    /\ industryAnalysisResult = NullResult
    /\ analyzingIndustry = ""
    /\ analysisLoading = FALSE
    /\ industryCurrentPage = 1
    /\ industryPageSize = 20
    /\ totalIndustries = Len(in.rows)
    /\ hotmapLoading = FALSE
    /\ industryChartRef = TRUE
    /\ marketHotmapChart = [created |-> FALSE, option |-> NoOption]
    /\ mounted = TRUE
    /\ analysisReqs = <<>>
    /\ trendReqs = <<>>
    /\ batches = <<>>
    /\ hierarchyReqs = 0
    /\ llmReqs = <<>>
    /\ hotmapInitTimer = "pending"
    /\ hotmapRenderTimers = <<>>
    /\ resizeTimers = 0
    /\ ops = 0
    /\ last = Step("init", 0, "", <<>>, {}, <<>>, 0)

NextChart ==
  \/ \E value \in DaysOptions : HandleDaysChange(value)
  \/ \E value \in FilterOptions : HandleIndustryFilterChange(value)

SpecChart == InitChart /\ [][NextChart]_vars

(***************************************************************************)
(* Properties.                                                             *)
(***************************************************************************)

\* C1: when the hierarchy request fails or yields an empty list the hotmap
\* is given the embedded mock data (three industries of three stocks each);
\* when it yields a non-empty list the hotmap is given the converted API
\* data and not the mock data.
C1_MockDataIffNoApiData ==
  last.op \in {"hierarchyFailure", "hierarchyResponse"} =>
    LET list == HierarchyList(last.input)
        data == marketHotmapChart.option.data
    IN  IF ~last.input.ok \/ list = <<>>
        THEN /\ [i \in 1..Len(data) |-> data[i].name]
                  = <<Str("bank"), Str("pharma"), Str("electronics")>>
             /\ \A i \in 1..Len(data) :
                  /\ Len(data[i].children) = 3
                  /\ SubSeq(data[i].value, 1, 3) = MockData[i].value
                  /\ \A j \in 1..3 : SubSeq(data[i].children[j].value, 1, 3)
                                       = MockData[i].children[j].value
        ELSE /\ data = ConvertData(ConvertApiDataToChartFormat(list))
             /\ Len(data) = Len(list)
             /\ data # ConvertData(MockData)

C1_Witness ==
  /\ last.op = "hierarchyFailure"
  /\ marketHotmapChart.option.set
  /\ Len(marketHotmapChart.option.data) = 3
  /\ marketHotmapChart.option.data[3].name = Str("electronics")

\* C2: a failed request of any kind leaves a message for the user: once the
\* failure is handled, error is not null or industryAnalysisResult carries
\* an error text.
C2_EveryFailureShowsMessage ==
  (\/ last.op \in {"analysisFailure", "trendFailure", "llmFailure",
                   "hierarchyFailure"}
   \/ last.op \in {"batchTrendSettles", "batchJoin"} /\ last.name = "failed")
  => (error # "null" \/ industryAnalysisResult.kind = "error")

\* C3: a failed getIndustryAnalysis leaves an empty table, a total of 0, a
\* failure message and loading false, and sends no trend request.
C3_AnalysisFailureDegradesToEmpty ==
  last.op = "analysisFailure" =>
    /\ industryAnalysis = <<>>
    /\ totalIndustries = 0
    /\ error = "analysisFailed"
    /\ loading = FALSE
    /\ last.sent = <<>>
    /\ \A b \in 1..Len(batches) : Len(batches[b].industries) > 0

C3_Witness ==
  /\ last.op = "analysisFailure"
  /\ industryChart.created
  /\ industryChart.option.set
  /\ industryAnalysis = <<>>

\* C4: getAllIndustryTrends sends one trend request per row of the table,
\* all of them before it awaits, and allIndustryTrends is assigned only by
\* the join of a batch none of whose requests is still pending.
C4_BatchIssuedAtOnceAndJoined ==
  [][ /\ (last'.op = "analysisResponse" /\ Len(industryAnalysis') > 0) =>
           /\ last'.sent = [i \in 1..Len(industryAnalysis') |->
                              TrendRequest(industryAnalysis'[i].industry)]
           /\ Len(batches') = Len(batches) + 1
           /\ batches'[Len(batches')].industries
                = [i \in 1..Len(industryAnalysis') |-> industryAnalysis'[i].industry]
           /\ \A i \in 1..Len(industryAnalysis') :
                batches'[Len(batches')].results[i] = Pending
      /\ (allIndustryTrends' # allIndustryTrends) => last'.op = "batchJoin"
      /\ last'.op = "batchJoin" =>
           /\ last'.pending = 0
           /\ PendingCount(batches[last'.arg].results) = 1
    ]_vars

C4_Witness ==
  /\ last.op = "batchJoin"
  /\ last.pending = 0
  /\ DOMAIN allIndustryTrends = {"I1", "I3"}

\* C5: updateIndustryChart charts exactly one series per selected industry:
\* with 'all' every row in table order, with 'top3' ('bottom3') at most three
\* rows none of which has a smaller (greater) avg_change than a row left
\* out, whether or not there is trend data for them.
C5_OneSeriesPerSelectedIndustry ==
  "line.setOption" \in last.effects =>
    LET series == industryChart.option.series
        names  == {series[i].name : i \in 1..Len(series)}
        rows   == industryAnalysis
    IN  /\ Cardinality(names) = Len(series)
        /\ names \subseteq {rows[i].industry : i \in 1..Len(rows)}
        /\ IF industryFilter = "all"
           THEN series = [i \in 1..Len(rows) |->
                            BuildSeries(rows[i], allIndustryTrends,
                                        industryChart.option.dates)]
           ELSE /\ Len(series) = Min(3, Len(rows))
                /\ \A i, j \in 1..Len(rows) :
                     (rows[i].industry \in names /\ rows[j].industry \notin names)
                       => IF industryFilter = "top3"
                          THEN rows[i].avg_change >= rows[j].avg_change
                          ELSE rows[i].avg_change <= rows[j].avg_change

C5_Witness ==
  /\ "line.setOption" \in last.effects
  /\ industryFilter = "top3"
  /\ Len(industryAnalysis) = 4
  /\ Len(industryChart.option.series) = 3
  /\ \E i, j \in 1..3 : /\ industryChart.option.series[i].real
                        /\ ~industryChart.option.series[j].real
  /\ industryAnalysis[1].avg_change < industryAnalysis[4].avg_change

\* C6: in a series built from trend data, the point of a charted date on
\* which some stock of the industry has an entry with a change_percent is
\* the mean of change_percent over exactly the stocks that have one, to the
\* nearest hundredth.
C6_PointIsMeanOverStocksWithData ==
  "line.setOption" \in last.effects =>
    \A s \in 1..Len(industryChart.option.series) :
      industryChart.option.series[s].real =>
        \A d \in 1..Len(industryChart.option.dates) :
          LET date  == industryChart.option.dates[d]
              point == industryChart.option.series[s].data[d]
              st == allIndustryTrends[industryChart.option.series[s].name].stock_trends
              Has(k, j) == st[k][j].date = date /\ st[k][j].change_percent # <<>>
              with == {k \in DOMAIN st : \E j \in 1..Len(st[k]) : Has(k, j)}
              Value(k) == st[k][CHOOSE j \in 1..Len(st[k]) : Has(k, j)].change_percent[1]
              order == SortAsc(with)
              sum[i \in 0..Len(order)] ==
                IF i = 0 THEN 0 ELSE sum[i - 1] + Value(order[i])
              n == Cardinality(with)
          IN  with # {} =>
                /\ point.t = "fixed"
                /\ 2 * Abs(point.v * n - sum[n]) <= n

C6_Witness ==
  /\ "line.setOption" \in last.effects
  /\ industryChart.option.dates = <<1, 2>>
  /\ Len(industryChart.option.series) = 1
  /\ industryChart.option.series[1].real
  /\ industryChart.option.series[1].data = <<Fixed(3), Fixed(-5)>>
  /\ DOMAIN allIndustryTrends["I1"].stock_trends = {1, 2}

\* C7: every node of the data handed to the treemap, industry or stock, API
\* or mock, has a value of four elements whose fourth is ten times its third.
C7_VisualValueIsTenTimesChange ==
  LET Good(value) == /\ Len(value) = 4
                     /\ value[3].t = "num"
                     /\ value[4] = Num(10 * value[3].n)
      GoodData(data) ==
        \A i \in 1..Len(data) :
          /\ Good(data[i].value)
          /\ \A j \in 1..Len(data[i].children) : Good(data[i].children[j].value)
  IN  /\ marketHotmapChart.option.set => GoodData(marketHotmapChart.option.data)
      /\ \A t \in 1..Len(hotmapRenderTimers) : GoodData(hotmapRenderTimers[t])

C7_Witness ==
  /\ last.op = "hierarchyResponse"
  /\ marketHotmapChart.option.set
  /\ marketHotmapChart.option.data[1].name = Str("coal")
  /\ marketHotmapChart.option.data[1].value[4] = Num(120)
  /\ marketHotmapChart.option.data[1].children[2].value[4] = Num(310)

\* C8: an industry-analysis request carries the page and the page size the
\* view holds when it is sent; handleIndustryPageChange(p) sends page p with
\* the page size as it was, handleIndustrySizeChange(s) sets the page to 1
\* and sends page 1 with page size s.
C8_RequestCarriesPagination ==
  [][ /\ \A i \in 1..Len(last'.sent) :
           last'.sent[i].kind = "analysis" =>
             /\ last'.sent[i].page = industryCurrentPage'
             /\ last'.sent[i].size = industryPageSize'
      /\ last'.op \in {"mounted", "handleIndustryPageChange",
                       "handleIndustrySizeChange"} =>
           /\ Len(last'.sent) = 1
           /\ last'.sent[1].kind = "analysis"
           /\ analysisReqs' = Append(analysisReqs, last'.sent[1])
      /\ last'.op = "handleIndustryPageChange" =>
           /\ industryCurrentPage' = last'.arg
           /\ industryPageSize' = industryPageSize
           /\ last'.sent[1].page = last'.arg
           /\ last'.sent[1].size = industryPageSize
      /\ last'.op = "handleIndustrySizeChange" =>
           /\ industryCurrentPage' = 1
           /\ industryPageSize' = last'.arg
           /\ last'.sent[1].page = 1
           /\ last'.sent[1].size = last'.arg
    ]_vars

C8_Witness ==
  /\ last.op = "handleIndustrySizeChange"
  /\ Len(analysisReqs) = 2
  /\ analysisReqs[1].page = 2
  /\ analysisReqs[2].page = 1
  /\ analysisReqs[2].size = 10
  /\ industryCurrentPage = 1

\* C9: after a successful getIndustryAnalysis the table holds the entries
\* of the response's data array, in order, and totalIndustries is the
\* response's total, 0 when it has none; data that is not an array leaves
\* an empty table.
C9_TableHoldsResponseRows ==
  last.op = "analysisResponse" =>
    /\ IF last.input.isArray
       THEN /\ Len(industryAnalysis) = Len(last.input.data)
            /\ \A i \in 1..Len(last.input.data) :
                 industryAnalysis[i] = last.input.data[i]
       ELSE industryAnalysis = <<>>
    /\ totalIndustries = IF last.input.total = <<>> THEN 0
                         ELSE last.input.total[1]

C9_Witness ==
  /\ last.op = "analysisResponse"
  /\ Len(industryAnalysis) = 2
  /\ industryAnalysis[2].industry = "I3"
  /\ totalIndustries = 7

\* C10, as stated: every completed industry-analysis fetch, batch of trend
\* fetches and hierarchy fetch, and every window resize, recreates the
\* chart concerned or resets its options.
C10_RefreshAndResizeResetChart ==
  /\ last.op \in {"analysisResponse", "batchJoin"} =>
       last.effects \cap {"line.init", "line.setOption"} # {}
  /\ last.op \in {"hierarchyResponse", "hierarchyFailure"} =>
       last.effects \cap {"hot.init", "hot.setOption"} # {}
  /\ last.op = "resizeTimer" =>
       /\ industryChart.created =>
            last.effects \cap {"line.init", "line.setOption"} # {}
       /\ marketHotmapChart.created =>
            last.effects \cap {"hot.init", "hot.setOption"} # {}

\* C10, amended: a completed industry-analysis fetch that returns rows, and
\* a completed batch of trend fetches while the table has rows, reset the
\* options of the line chart (creating it when there is none); a completed
\* hierarchy fetch clears the hotmap and sets its options; a window resize
\* resizes the charts that exist and neither recreates them nor sets options.
C10_RefreshResetsResizeResizes ==
  /\ (last.op \in {"analysisResponse", "batchJoin"} /\ Len(industryAnalysis) > 0)
       => /\ "line.setOption" \in last.effects
          /\ industryChart.created
          /\ industryChart.option =
               IndustryOption(industryAnalysis, allIndustryTrends,
                              industryFilter, daysToShow)
  /\ last.op \in {"hierarchyResponse", "hierarchyFailure"} =>
       {"hot.clear", "hot.setOption"} \subseteq last.effects
  /\ last.op = "resizeTimer" =>
       /\ last.effects \subseteq {"line.resize", "hot.resize"}
       /\ industryChart.created <=> "line.resize" \in last.effects
       /\ marketHotmapChart.created <=> "hot.resize" \in last.effects

C10_Witness ==
  /\ last.op = "resizeTimer"
  /\ last.effects = {"line.resize", "hot.resize"}
  /\ industryChart.option.set
  /\ marketHotmapChart.option.set

\* C11: a node converted from an API record that supplies its market
\* capitalisation as market_cap, as marketCap or as the first element of a
\* value array has that number as value[0], and has as value[2] the record's
\* change taken from increase, change or the third element of the value
\* array; for industries and for their stocks alike.
C11_NodeCarriesMarketCapAndChange ==
  last.op = "hierarchyResponse" =>
    LET list == HierarchyList(last.input)
        data == marketHotmapChart.option.data
        Nums(S) == {v \in S : v.t = "num"}
        Caps(rec) == Nums({rec.market_cap, rec.marketCap, At(rec.value, 0)})
        Changes(rec) == Nums({rec.increase, rec.change, At(rec.value, 2)})
        Good(rec, node) ==
          /\ Caps(rec) # {} => node.value[1] \in Caps(rec)
          /\ Changes(rec) # {} => node.value[3] \in Changes(rec)
        Kids(rec) == IF rec.children.t = "arr" THEN rec.children.a
                     ELSE IF rec.stocks.t = "arr" THEN rec.stocks.a ELSE <<>>
    IN  list # <<>> =>
          \A i \in 1..Len(list) :
            /\ Good(list[i], data[i])
            /\ \A j \in 1..Len(Kids(list[i])) :
                 Good(Kids(list[i])[j], data[i].children[j])

\* C12: no request is retried.  A step that handles the failure of a
\* request sends nothing and leaves fewer requests in flight; requests are
\* sent only by the mount event, by a user event, by the timer the mount
\* event set and by the continuation of a successful industry-analysis
\* request; a step puts no request on the network beyond those it sends,
\* and sends none twice.
C12_NoRequestIsRetried ==
  [][ LET pend[b \in 0..Len(batches)] ==
            IF b = 0 THEN 0 ELSE pend[b - 1] + PendingCount(batches[b].results)
          pendAfter[b \in 0..Len(batches')] ==
            IF b = 0 THEN 0 ELSE pendAfter[b - 1] + PendingCount(batches'[b].results)
          inFlight == Len(analysisReqs) + Len(trendReqs) + Len(llmReqs)
                        + hierarchyReqs + pend[Len(batches)]
          inFlightAfter == Len(analysisReqs') + Len(trendReqs') + Len(llmReqs')
                             + hierarchyReqs' + pendAfter[Len(batches')]
          failure == \/ last'.op \in {"analysisFailure", "trendFailure",
                                      "llmFailure", "hierarchyFailure",
                                      "batchTrendRejects"}
                     \/ /\ last'.op \in {"batchTrendSettles", "batchJoin"}
                        /\ last'.name = "failed"
      IN  /\ failure => /\ last'.sent = <<>>
                        /\ inFlightAfter < inFlight
          /\ inFlightAfter <= inFlight + Len(last'.sent)
          /\ last'.sent # <<>> =>
               \/ ops' = ops + 1
               \/ last'.op \in {"mounted", "initHotmapChart", "analysisResponse"}
          /\ \A i, j \in 1..Len(last'.sent) :
               last'.sent[i] = last'.sent[j] => i = j
    ]_vars

C12_Witness ==
  /\ last.op = "llmFailure"
  /\ llmReqs = <<>>
  /\ trendReqs = <<>>
  /\ error = "trendFailed"
  /\ industryAnalysisResult.kind = "error"

\* C13: when allIndustryTrends holds trend data for an industry,
\* analyzeIndustry(industry) ends with industryAnalysisResult a statistics
\* record of that industry without an error field, and analysisLoading false.
C13_AnalyzeIndustryYieldsStatistics ==
  (last.op = "analyzeIndustry" /\ HasTrend(allIndustryTrends, last.name)) =>
    /\ industryAnalysisResult.kind \notin {"null", "error"}
    /\ industryAnalysisResult.industry = <<last.name>>
    /\ ~analysisLoading

\* C14: when allIndustryTrends holds no trend data for an industry,
\* analyzeIndustry(industry) stores the record of that industry with the
\* missing-trend-data text and nothing else, sends no request, touches no
\* request in flight, and leaves analysisLoading false.
C14_AnalyzeIndustryWithoutTrendData ==
  [][ (last'.op = "analyzeIndustry" /\ ~HasTrend(allIndustryTrends, last'.name)) =>
        /\ industryAnalysisResult' = ErrorResult(last'.name, "noTrendData")
        /\ analyzingIndustry' = last'.name
        /\ ~analysisLoading'
        /\ last'.sent = <<>>
        /\ UNCHANGED << analysisReqs, trendReqs, batches, hierarchyReqs, llmReqs,
                        allIndustryTrends, error, loading >>
    ]_vars

C14_Witness ==
  /\ last.op = "analyzeIndustry"
  /\ last.name = "I3"
  /\ DOMAIN allIndustryTrends = {"I1"}
  /\ industryAnalysisResult = ErrorResult("I3", "noTrendData")
  /\ ~analysisLoading

C16_PartialBatchStillCompletes ==
  [][ LET b == last'.arg
          ends == last'.op \in {"batchJoin", "batchTrendRejects"}
          names == batches[b].industries
          \* the results of the batch once its last request has settled
          results == [j \in 1..Len(names) |->
                        IF batches[b].results[j] # Pending
                        THEN batches[b].results[j]
                        ELSE IF last'.op = "batchJoin" /\ last'.name = "ok"
                        THEN Ok(TrendBodyOf(names[j]))
                        ELSE Failed]
          failed == {j \in 1..Len(names) : results[j] = Failed}
          succeeded == {j \in 1..Len(names) : results[j].st = "ok"}
          kept == {j \in succeeded : results[j].body.stock_trends # <<>>}
      IN  (ends /\ failed # {} /\ succeeded # {}) =>
            /\ error' = error
            /\ DOMAIN allIndustryTrends' = {names[j] : j \in kept}
            /\ \A j \in kept :
                 /\ allIndustryTrends'[names[j]].industry = names[j]
                 /\ allIndustryTrends'[names[j]].stock_trends
                      = results[j].body.stock_trends[1]
    ]_vars

\* C17: a failed getIndustryTrend leaves industryTrend as it was before the
\* call, sets error to the failure message and leaves loading false; no
\* part of getIndustryTrend, on success or on failure, changes
\* industryAnalysis, allIndustryTrends or the pagination state.
C17_TrendFailureKeepsTrend ==
  [][ /\ last'.op = "trendFailure" =>
           /\ industryTrend' = industryTrend
           /\ error' = "trendFailed"
           /\ ~loading'
      /\ last'.op = "getIndustryTrend" => industryTrend' = industryTrend
      /\ last'.op \in {"getIndustryTrend", "trendResponse", "trendFailure"} =>
           UNCHANGED << industryAnalysis, allIndustryTrends, industryCurrentPage,
                        industryPageSize, totalIndustries >>
    ]_vars

C17_Witness ==
  /\ last.op = "trendFailure"
  /\ last.name = "I3"
  /\ industryTrend = <<TrendBodyOf("I1")>>
  /\ error = "trendFailed"
  /\ ~loading

\* C18: in every option updateIndustryChart sets, the x-axis dates are
\* ascending without duplicates, are dates found in the trend data of the
\* industries charted and of no other, are the last daysToShow of those
\* dates, and every series has one point per x-axis date.
C18_DatesAreLastOfSelectedIndustries ==
  "line.setOption" \in last.effects =>
    LET dates  == industryChart.option.dates
        series == industryChart.option.series
        shown  == {series[i].name : i \in 1..Len(series)} \cap DOMAIN allIndustryTrends
        found  == {d \in 1..4 :
                     \E n \in shown :
                       \E k \in DOMAIN allIndustryTrends[n].stock_trends :
                         \E j \in 1..Len(allIndustryTrends[n].stock_trends[k]) :
                           allIndustryTrends[n].stock_trends[k][j].date = d}
        onAxis == {dates[i] : i \in 1..Len(dates)}
    IN  /\ \A i \in 1..(Len(dates) - 1) : dates[i] < dates[i + 1]
        /\ onAxis \subseteq found
        /\ Len(dates) = Min(daysToShow, Cardinality(found))
        /\ \A d \in found \ onAxis : \A e \in onAxis : d < e
        /\ \A i \in 1..Len(series) : Len(series[i].data) = Len(dates)

C18_Witness ==
  /\ last.op = "handleDaysChange"
  /\ "line.setOption" \in last.effects
  /\ daysToShow = 1
  /\ industryChart.option.dates = <<3>>
  /\ Len(industryChart.option.series) = 3
  /\ "I2" \in DOMAIN allIndustryTrends
  /\ \A i \in 1..3 : /\ industryChart.option.series[i].name # "I2"
                     /\ Len(industryChart.option.series[i].data) = 1

\* C19: in a series built from trend data, the point of a charted date on
\* which no stock of the industry has an entry with a change_percent is
\* null, and not a number or a numeric string.
C19_DateWithoutDataIsNull ==
  "line.setOption" \in last.effects =>
    \A s \in 1..Len(industryChart.option.series) :
      industryChart.option.series[s].real =>
        \A d \in 1..Len(industryChart.option.dates) :
          LET date  == industryChart.option.dates[d]
              point == industryChart.option.series[s].data[d]
              st == allIndustryTrends[industryChart.option.series[s].name].stock_trends
              with == {k \in DOMAIN st :
                         \E j \in 1..Len(st[k]) :
                           /\ st[k][j].date = date
                           /\ st[k][j].change_percent # <<>>}
          IN  with = {} => point.t = "null"

\* C20: getIndustryStockHierarchy always returns a list, from which the
\* hotmap is built: the data array of a {data: [...]} response, the response
\* itself when it is an array, the one-element list of the response when it
\* is another non-null object, and the empty list when the request fails or
\* the status is not OK (and for a null body).
C20_HierarchyAlwaysYieldsList ==
  last.op \in {"hierarchyResponse", "hierarchyFailure"} =>
    LET resp == last.input
        body == resp.body
        list == IF ~resp.ok THEN <<>>
                ELSE IF body.t = "obj" /\ body.o.data.t = "arr" THEN body.o.data.a
                ELSE IF body.t = "arr" THEN body.a
                ELSE IF body.t = "obj" THEN <<body.o>>
                ELSE <<>>
    IN  /\ ~hotmapLoading
        /\ marketHotmapChart.option.set
        /\ marketHotmapChart.option.data
             = ConvertData(FinalData(ConvertApiDataToChartFormat(list)))
        /\ list # <<>> => Len(marketHotmapChart.option.data) = Len(list)

C20_Witness ==
  /\ last.op = "hierarchyResponse"
  /\ last.input.body.t = "obj"
  /\ last.input.body.o.data = Undefined
  /\ Len(marketHotmapChart.option.data) = 1
  /\ marketHotmapChart.option.data[1].name = Str("solo")

\* C21: once every industry-analysis request has settled, the table and the
\* total are those of the response to the request issued last, the one for
\* the page and the page size the view shows, whatever the order in which
\* the responses arrived: the response handled last is the response to that
\* request.
C21_TableShowsLatestRequest ==
  [][ (last'.op = "analysisResponse" /\ analysisReqs' = <<>>) =>
        /\ industryAnalysis' = RowsOf(last'.input)
        /\ totalIndustries' = TotalOf(last'.input)
        /\ analysisReqs[last'.arg].page = industryCurrentPage'
        /\ analysisReqs[last'.arg].size = industryPageSize'
    ]_vars

====
